---- MODULE Spec2Model ----
(***************************************************************************)
(* Soundcheck: the Spotify SDK bootstrap and clip playback of the          *)
(* useSpotifyPlayer hook, and the OAuth token lifecycle of the play page.  *)
(***************************************************************************)
EXTENDS Integers, Sequences, FiniteSets, TLC

(***************************************************************************)
(* Bounds of the model.                                                    *)
(***************************************************************************)
\* hook instances rendered in the tab
NumInstances == 2
\* runs of the mount effect per hook instance (a remount re-runs the effect)
MaxMounts == 2
\* playSnippet / stopPlayback calls issued per behaviour
MaxRequests == 3

\* the value null of a ref or of a state field; ids start at 1
NULL == 0

Instances == 1..NumInstances
Gens == 1..MaxMounts
RequestIds == 1..MaxRequests
\* the hook the quiz UI renders (SpotifyProvider's)
Hook == CHOOSE i \in Instances : \A j \in Instances : i <= j

VARIABLES
    \* ---- browser globals of the SDK loader
    clientIdConfigured, \* SPOTIFY_CLIENT_ID is a non-empty string
    sdkReady,           \* window.__spotifySDKReady
    spotifyGlobal,      \* window.Spotify is defined
    callbacks,          \* window.__spotifySDKCallbacks, closures <<instance, effect run>>
    scripts,            \* number of script elements with src = SPOTIFY_SDK_URL
    \* ---- one useSpotifyPlayer instance each
    phase,              \* "none" (not rendered yet), "mounted", "unmounted"
    gen,                \* number of runs of the mount effect so far
    isMountedRef,
    cleanupSDK,         \* the cleanup loadSpotifySDK returned: "none", "noop", "remove"
    playerRef,          \* NULL or the effect run that created the player
    accessTokenRef,     \* TRUE when a token string is held
    deviceId,           \* state.deviceId: NULL or the device id
    isReady,            \* state.isReady
    hookError,          \* state.error /= null
    snippetTimeoutRef,  \* NULL or a timer id
    \* ---- playback
    timers,             \* pending timers, in the order they were scheduled
    requests,           \* the playSnippet and stopPlayback calls, by id: the instance, the
                        \* kind, how far the call got, whether an automatic stop of the
                        \* instance was pending when it was issued, and whether the
                        \* instance was mounted then (live)
    nextId,             \* next request id
    lastReq,            \* per instance: id of its latest playSnippet/stopPlayback call
    playing,            \* per instance: NULL or the request whose clip the device plays
    \* ---- history
    runs,               \* runs[i][g]: invocations of the initializePlayer closure <<i, g>>
    connected,          \* players connect()ed and not disconnect()ed, as <<i, g>>
    fired               \* timers whose callback has run

\* page loads per behaviour
MaxLoads == 2
\* minutes the clock may advance per behaviour
MaxTicks == 2

VARIABLES
    \* ---- the browser tab of the play page
    now,                \* Date.now(), in ms
    storage,            \* sessionStorage item TOKEN_STORAGE_KEY
    url,                \* window.location: [path, search, hash]
    agentIdConfigured,  \* ELEVENLABS_AGENT_ID is a non-empty string
    \* ---- PlayPage
    pagePc,             \* position of the page: "unloaded", the steps of the mount effect, "settled"
    pageAccessToken,    \* state accessToken: None or Some(string)
    isLoading,
    hocToken,           \* handleOAuthCallback's local tokenData
    hocResult,          \* what handleOAuthCallback returned to the mount effect
    loads,              \* page loads so far
    \* ---- history
    loadUrl,            \* the URL the latest page load arrived with
    lastRead,           \* the latest read of the stored token: what was called, what
                        \* it found, after a clearToken or not, and what it returned
    clearedSinceSave,   \* clearToken has run and saveToken has not run since
    lastSaved,          \* the token the latest saveToken was given, None once cleared
    loggedOut           \* handleLogout has run and no token has been saved since

\* songs of a round
NumSongs == 2
\* clicks on Start per behaviour
MaxStarts == 2

Songs == 1..NumSongs
\* no play_song_snippet call yet
NoTool == [song |-> 0, isReplay |-> FALSE, refused |-> FALSE]

VARIABLES
    \* ---- QuizPlayer
    isStarted,
    session,            \* the conversation: "idle", "starting", "connected", "failed"
    replaysRef,         \* replaysRef.current, by song number (a missing key reads as 0)
    replaysUsed,        \* progress.replaysUsed
    tools,              \* the play_song_snippet calls that went on to playSnippet: song,
                        \* is_replay, the playSnippet request and what the tool returned
    lastTool,           \* the latest play_song_snippet call: song, is_replay, and
                        \* whether it was refused as a replay beyond the limit
    lastStop,           \* what the latest stop_playback call ended with: "none" (no
                        \* call yet), "stopped" (the acknowledgement), "thrown"
    \* ---- history
    startCalls,         \* calls of conversation.startSession
    alerted             \* handleStart has shown its not-ready alert

quizVars == <<isStarted, session, replaysRef, replaysUsed, tools, lastTool, lastStop,
              startCalls, alerted>>

tokenVars == <<now, storage, url, agentIdConfigured, pagePc, pageAccessToken, isLoading,
               hocToken, hocResult, loads, loadUrl, lastRead, clearedSinceSave, lastSaved,
               loggedOut>>

loaderVars == <<clientIdConfigured, sdkReady, spotifyGlobal, callbacks, scripts>>
hookVars == <<phase, gen, isMountedRef, cleanupSDK, playerRef, accessTokenRef,
              deviceId, isReady, hookError, snippetTimeoutRef>>
playVars == <<timers, requests, nextId, lastReq, playing>>
histVars == <<runs, connected, fired>>
sdkVars == <<loaderVars, hookVars, playVars, histVars>>
vars == <<sdkVars, tokenVars, quizVars>>

(***************************************************************************)
(* Helpers on sequences.                                                   *)
(***************************************************************************)
RECURSIVE IndexOf(_, _, _)
\* Array.prototype.indexOf from position k: the first index holding x, or 0
IndexOf(s, x, k) ==
    IF k > Len(s) THEN 0
    ELSE IF s[k] = x THEN k
    ELSE IndexOf(s, x, k + 1)

\* Array.prototype.splice(index, 1)
Splice(s, k) == SubSeq(s, 1, k - 1) \o SubSeq(s, k + 1, Len(s))

\* clearTimeout(id): the timer, if pending, is dropped; any other id is ignored
clearTimeout(ts, id) == SelectSeq(ts, LAMBDA t : t /= id)

Count(s, x) == Cardinality({k \in 1..Len(s) : s[k] = x})

(***************************************************************************)
(* useSpotifyPlayer: initializePlayer, the continuation handed to the      *)
(* loader.  st carries the fields it may change: playerRef, connected and  *)
(* the invocation counts.  c = <<i, g>> is the closure of effect run g of  *)
(* instance i; the refs it reads are those of instance i.                  *)
(***************************************************************************)
initializePlayer_mut(c, mounted, st) ==
    LET i == c[1]
        g == c[2]
        counted == [st EXCEPT !.runs[i][g] = @ + 1]
    IN  IF ~mounted[i] THEN counted
        ELSE [counted EXCEPT !.playerRef[i] = g, !.connected = @ \cup {c}]
initializePlayer(c, mounted, st) ==
    LET i == c[1]
        g == c[2]
        counted == [st EXCEPT !.runs[i][g] = @ + 1]
    IN  IF ~mounted[i] THEN counted
        ELSE IF st.playerRef[i] /= NULL THEN counted
        ELSE [counted EXCEPT !.playerRef[i] = g, !.connected = @ \cup {c}]

RECURSIVE forEachCallback(_, _, _)
\* callbacks.forEach((cb) => cb()) of the ready handler
forEachCallback(cbs, mounted, st) ==
    IF cbs = <<>> THEN st
    ELSE forEachCallback(Tail(cbs), mounted, initializePlayer(Head(cbs), mounted, st))

\* document.querySelector(`script[src="${SPOTIFY_SDK_URL}"]`) finds an element
existingScript_mut == FALSE
existingScript == scripts > 0

\* the cleanup closure loadSpotifySDK returns on its queueing paths
removeCallback_mut(cbs, c) == cbs
removeCallback(cbs, c) ==
    LET index == IndexOf(cbs, c, 1)
    IN  IF index > 0 THEN Splice(cbs, index) ELSE cbs

\* window.__spotifySDKCallbacks.push(onReady)
pushCallback_mut(cbs, c) == IF cbs = <<>> THEN Append(cbs, c) ELSE cbs
pushCallback(cbs, c) == Append(cbs, c)

\* the fields initializePlayer works on, as they are now
HookSt == [playerRef |-> playerRef, connected |-> connected, runs |-> runs]

(***************************************************************************)
(* loadSpotifySDK(onReady), called by the mount effect of instance c[1]    *)
(* with its closure c; mounted is isMountedRef as the effect has set it.   *)
(***************************************************************************)
\* window.Spotify && window.__spotifySDKReady
sdkAlreadyLoaded_mut == FALSE
sdkAlreadyLoaded == spotifyGlobal /\ sdkReady

loadSpotifySDK(c, mounted) ==
    LET i == c[1] IN
    IF sdkAlreadyLoaded
    THEN LET st == initializePlayer(c, mounted, HookSt)
         IN  /\ playerRef' = st.playerRef
             /\ connected' = st.connected
             /\ runs' = st.runs
             /\ cleanupSDK' = [cleanupSDK EXCEPT ![i] = "noop"]
             /\ UNCHANGED <<callbacks, scripts>>
    ELSE /\ callbacks' = pushCallback(callbacks, c)
         /\ scripts' = IF existingScript THEN scripts ELSE scripts + 1
         /\ cleanupSDK' = [cleanupSDK EXCEPT ![i] = "remove"]
         /\ UNCHANGED <<playerRef, connected, runs>>

\* !SPOTIFY_CLIENT_ID
clientIdMissing_mut == FALSE
clientIdMissing == ~clientIdConfigured

\* the mount effect of useSpotifyPlayer
Mount(i) ==
    /\ phase[i] /= "mounted"
    /\ gen[i] < MaxMounts
    /\ phase' = [phase EXCEPT ![i] = "mounted"]
    /\ gen' = [gen EXCEPT ![i] = @ + 1]
    /\ isMountedRef' = [isMountedRef EXCEPT ![i] = TRUE]
    /\ IF clientIdMissing
       THEN /\ hookError' = [hookError EXCEPT ![i] = TRUE]
            /\ cleanupSDK' = [cleanupSDK EXCEPT ![i] = "none"]
            /\ UNCHANGED <<callbacks, scripts, playerRef, connected, runs>>
       ELSE /\ loadSpotifySDK(<<i, gen[i] + 1>>, isMountedRef')
            /\ UNCHANGED hookError
    /\ UNCHANGED <<clientIdConfigured, sdkReady, spotifyGlobal, accessTokenRef,
                   deviceId, isReady, snippetTimeoutRef, playVars, fired>>

\* the cleanup the mount effect returned (none when the client ID is missing)
Unmount(i) ==
    /\ phase[i] = "mounted"
    /\ phase' = [phase EXCEPT ![i] = "unmounted"]
    /\ IF cleanupSDK[i] = "none"
       THEN UNCHANGED <<isMountedRef, callbacks, playerRef, connected,
                        snippetTimeoutRef, timers, playing>>
       ELSE /\ isMountedRef' = [isMountedRef EXCEPT ![i] = FALSE]
            /\ callbacks' = IF cleanupSDK[i] = "remove"
                            THEN removeCallback(callbacks, <<i, gen[i]>>)
                            ELSE callbacks
            /\ playerRef' = [playerRef EXCEPT ![i] = NULL]
            /\ connected' = IF playerRef[i] /= NULL
                            THEN connected \ {<<i, playerRef[i]>>}
                            ELSE connected
            /\ playing' = IF playerRef[i] /= NULL
                          THEN [playing EXCEPT ![i] = NULL]
                          ELSE playing
            /\ timers' = IF snippetTimeoutRef[i] /= NULL
                         THEN clearTimeout(timers, snippetTimeoutRef[i])
                         ELSE timers
            /\ snippetTimeoutRef' = [snippetTimeoutRef EXCEPT ![i] = NULL]
    /\ UNCHANGED <<clientIdConfigured, sdkReady, spotifyGlobal, scripts, gen,
                   cleanupSDK, accessTokenRef, deviceId, isReady, hookError,
                   requests, nextId, lastReq, runs, fired>>

\* window.__spotifySDKCallbacks = [] at the end of the ready handler
clearQueue_mut(cbs) == cbs
clearQueue(cbs) == <<>>

\* the SDK script has loaded and calls window.onSpotifyWebPlaybackSDKReady
SDKReadySignal ==
    /\ scripts > 0
    /\ ~sdkReady
    /\ spotifyGlobal' = TRUE
    /\ sdkReady' = TRUE
    /\ LET st == forEachCallback(callbacks, isMountedRef, HookSt)
       IN  /\ playerRef' = st.playerRef
           /\ connected' = st.connected
           /\ runs' = st.runs
    /\ callbacks' = clearQueue(callbacks)
    /\ UNCHANGED <<clientIdConfigured, scripts, phase, gen, isMountedRef,
                   cleanupSDK, accessTokenRef, deviceId, isReady, hookError,
                   snippetTimeoutRef, playVars, fired>>

\* the "ready" listener of a connected player c (its device comes online)
PlayerReady(i) ==
    \E c \in connected :
        /\ c[1] = i
        /\ isMountedRef[i]
        /\ ~isReady[i] \/ deviceId[i] /= c[2]
        /\ isReady' = [isReady EXCEPT ![i] = TRUE]
        /\ deviceId' = [deviceId EXCEPT ![i] = c[2]]
        /\ UNCHANGED <<loaderVars, phase, gen, isMountedRef, cleanupSDK, playerRef,
                       accessTokenRef, hookError, snippetTimeoutRef, playVars, histVars>>

\* the "not_ready" listener: the device of player c went offline
PlayerNotReady(i) ==
    \E c \in connected :
        /\ c[1] = i
        /\ isMountedRef[i]
        /\ isReady[i]
        /\ isReady' = [isReady EXCEPT ![i] = FALSE]
        /\ deviceId' = [deviceId EXCEPT ![i] = c[2]]
        /\ UNCHANGED <<loaderVars, phase, gen, isMountedRef, cleanupSDK, playerRef,
                       accessTokenRef, hookError, snippetTimeoutRef, playVars, histVars>>

RECURSIVE forEachCaught_mut(_, _, _, _)
\* the dispatch without the try/catch: the first throw ends the forEach
forEachCaught_mut(cbs, mounted, st, throwers) ==
    IF cbs = <<>> THEN st
    ELSE LET c == Head(cbs)
         IN  IF c \in throwers
             THEN [st EXCEPT !.runs[c[1]][c[2]] = @ + 1]
             ELSE forEachCaught_mut(Tail(cbs), mounted, initializePlayer(c, mounted, st), throwers)

RECURSIVE forEachCaught(_, _, _, _)
\* callbacks.forEach((cb) => { try { cb(); } catch (e) { console.error(...) } })
\* when the invocations of the closures in throwers throw (new Spotify.Player
\* or player.connect() throwing): such an invocation leaves no player behind
forEachCaught(cbs, mounted, st, throwers) ==
    IF cbs = <<>> THEN st
    ELSE LET c == Head(cbs)
         IN  forEachCaught(Tail(cbs), mounted,
                           IF c \in throwers
                           THEN [st EXCEPT !.runs[c[1]][c[2]] = @ + 1]
                           ELSE initializePlayer(c, mounted, st),
                           throwers)

\* the closures in the queue
Queued == {callbacks[k] : k \in 1..Len(callbacks)}

\* window.onSpotifyWebPlaybackSDKReady when the continuations in throwers throw
SDKReadySignalThrowing(throwers) ==
    /\ scripts > 0
    /\ ~sdkReady
    /\ throwers \subseteq Queued
    /\ spotifyGlobal' = TRUE
    /\ sdkReady' = TRUE
    /\ LET st == forEachCaught(callbacks, isMountedRef, HookSt, throwers)
       IN  /\ playerRef' = st.playerRef
           /\ connected' = st.connected
           /\ runs' = st.runs
    /\ callbacks' = clearQueue(callbacks)
    /\ UNCHANGED <<clientIdConfigured, scripts, phase, gen, isMountedRef,
                   cleanupSDK, accessTokenRef, deviceId, isReady, hookError,
                   snippetTimeoutRef, playVars, fired>>

\* setAccessToken(token), called by SpotifyProvider's effect
SetAccessToken(i) ==
    /\ phase[i] = "mounted"
    /\ ~accessTokenRef[i]
    /\ accessTokenRef' = [accessTokenRef EXCEPT ![i] = TRUE]
    /\ UNCHANGED <<loaderVars, phase, gen, isMountedRef, cleanupSDK, playerRef,
                   deviceId, isReady, hookError, snippetTimeoutRef, playVars, histVars>>

(***************************************************************************)
(* Clip playback.  A timer's id is the id of the playSnippet call that     *)
(* scheduled it.  All timers have the delay SNIPPET_DURATION_MS, so they   *)
(* fire in the order they were scheduled.                                  *)
(***************************************************************************)
\* stopPlayback of instance i on the pending timers ts, the refs and the device
stopPlayback_mut(i, ts, ref, pl) ==
    [timers |-> ts,
     ref |-> ref,
     playing |-> IF playerRef[i] /= NULL THEN [pl EXCEPT ![i] = NULL] ELSE pl]
stopPlayback(i, ts, ref, pl) ==
    [timers |-> IF ref[i] /= NULL THEN clearTimeout(ts, ref[i]) ELSE ts,
     ref |-> [ref EXCEPT ![i] = NULL],
     playing |-> IF playerRef[i] /= NULL THEN [pl EXCEPT ![i] = NULL] ELSE pl]

\* the pending timers that calls of instance i scheduled
PendingOf(i, ts) == SelectSeq(ts, LAMBDA t : requests[t].inst = i)

\* the precondition of playSnippet: it throws unless both are set
playSnippetReady(i) == accessTokenRef[i] /\ deviceId[i] /= NULL

\* playSnippet up to its await: the precondition and the clearTimeout
PlaySnippet(i) ==
    /\ phase[i] /= "none"
    /\ nextId <= MaxRequests
    /\ nextId' = nextId + 1
    /\ lastReq' = [lastReq EXCEPT ![i] = nextId]
    /\ IF ~playSnippetReady(i)
       THEN /\ requests' = Append(requests, [inst |-> i, kind |-> "play", status |-> "rejected",
                                               sawPending |-> PendingOf(i, timers) /= <<>>,
                                     live |-> phase[i] = "mounted"])
            /\ UNCHANGED timers
       ELSE /\ requests' = Append(requests, [inst |-> i, kind |-> "play", status |-> "awaiting",
                                               sawPending |-> PendingOf(i, timers) /= <<>>,
                                     live |-> phase[i] = "mounted"])
            /\ timers' = IF snippetTimeoutRef[i] /= NULL
                         THEN clearTimeout(timers, snippetTimeoutRef[i])
                         ELSE timers
    /\ UNCHANGED <<loaderVars, hookVars, playing, histVars>>

\* the playback endpoint accepts the request: the device starts the clip
ServerAccept(r) ==
    /\ r \in 1..Len(requests)
    /\ requests[r].status = "awaiting"
    /\ requests' = [requests EXCEPT ![r].status = "accepted"]
    /\ playing' = [playing EXCEPT ![requests[r].inst] = r]
    /\ UNCHANGED <<loaderVars, hookVars, timers, nextId, lastReq, histVars>>

\* playSnippet after its await, response.ok: the automatic stop is scheduled
FetchOk(r) ==
    /\ r \in 1..Len(requests)
    /\ requests[r].status = "accepted"
    /\ requests' = [requests EXCEPT ![r].status = "ok"]
    /\ timers' = Append(timers, r)
    /\ snippetTimeoutRef' = [snippetTimeoutRef EXCEPT ![requests[r].inst] = r]
    /\ UNCHANGED <<loaderVars, phase, gen, isMountedRef, cleanupSDK, playerRef,
                   accessTokenRef, deviceId, isReady, hookError, nextId, lastReq,
                   playing, histVars>>

\* playSnippet after its await, !response.ok: it throws
FetchFail(r) ==
    /\ r \in 1..Len(requests)
    /\ requests[r].status = "awaiting"
    /\ requests' = [requests EXCEPT ![r].status = "failed"]
    /\ UNCHANGED <<loaderVars, hookVars, timers, nextId, lastReq, playing, histVars>>

\* a stopPlayback call (the stop_playback tool)
StopPlayback(i) ==
    /\ phase[i] /= "none"
    /\ nextId <= MaxRequests
    /\ nextId' = nextId + 1
    /\ lastReq' = [lastReq EXCEPT ![i] = nextId]
    /\ requests' = Append(requests, [inst |-> i, kind |-> "stop", status |-> "ok",
                                     sawPending |-> PendingOf(i, timers) /= <<>>,
                                     live |-> phase[i] = "mounted"])
    /\ LET st == stopPlayback(i, timers, snippetTimeoutRef, playing)
       IN  /\ timers' = st.timers
           /\ snippetTimeoutRef' = st.ref
           /\ playing' = st.playing
    /\ UNCHANGED <<loaderVars, phase, gen, isMountedRef, cleanupSDK, playerRef,
                   accessTokenRef, deviceId, isReady, hookError, histVars>>

\* the earliest pending timer expires: the callback playSnippet gave setTimeout
TimerFire ==
    /\ timers /= <<>>
    /\ LET t == Head(timers)
           i == requests[t].inst
       IN  /\ fired' = fired \cup {t}
           /\ IF isMountedRef[i]
              THEN LET st == stopPlayback(i, Tail(timers), snippetTimeoutRef, playing)
                   IN  /\ timers' = st.timers
                       /\ snippetTimeoutRef' = st.ref
                       /\ playing' = st.playing
              ELSE /\ timers' = Tail(timers)
                   /\ UNCHANGED <<snippetTimeoutRef, playing>>
    /\ UNCHANGED <<loaderVars, phase, gen, isMountedRef, cleanupSDK, playerRef,
                   accessTokenRef, deviceId, isReady, hookError, requests, nextId,
                   lastReq, runs, connected>>

(***************************************************************************)
(* The hook: initial state and specifications.                             *)
(***************************************************************************)
InitSdk ==
    /\ clientIdConfigured \in BOOLEAN
    /\ sdkReady = FALSE
    /\ spotifyGlobal = FALSE
    /\ callbacks = <<>>
    /\ scripts = 0
    /\ phase = [i \in Instances |-> "none"]
    /\ gen = [i \in Instances |-> 0]
    /\ isMountedRef = [i \in Instances |-> TRUE]
    /\ cleanupSDK = [i \in Instances |-> "none"]
    /\ playerRef = [i \in Instances |-> NULL]
    /\ accessTokenRef = [i \in Instances |-> FALSE]
    /\ deviceId = [i \in Instances |-> NULL]
    /\ isReady = [i \in Instances |-> FALSE]
    /\ hookError = [i \in Instances |-> FALSE]
    /\ snippetTimeoutRef = [i \in Instances |-> NULL]
    /\ timers = <<>>
    /\ requests = <<>>
    /\ nextId = 1
    /\ lastReq = [i \in Instances |-> NULL]
    /\ playing = [i \in Instances |-> NULL]
    /\ runs = [i \in Instances |-> [g \in Gens |-> 0]]
    /\ connected = {}
    /\ fired = {}

(***************************************************************************)
(* Values.  A string is a tuple of one-character strings, so that parsing  *)
(* reads it character by character.  A nullable value is None or Some(v).  *)
(* A JavaScript number is [kind |-> "num", v |-> n] or NaN; a JSON value   *)
(* that stands for one may also be null or missing ("undefined").          *)
(***************************************************************************)
None == <<>>
Some(v) == <<v>>
Num(n) == [kind |-> "num", v |-> n]
NaN == [kind |-> "nan", v |-> 0]
JsonNull == [kind |-> "null", v |-> 0]
Undefined == [kind |-> "undefined", v |-> 0]

Digits == {"0", "1", "2", "3", "4", "5", "6", "7", "8", "9"}
DigitVal(c) ==
    CASE c = "0" -> 0 [] c = "1" -> 1 [] c = "2" -> 2 [] c = "3" -> 3 [] c = "4" -> 4
      [] c = "5" -> 5 [] c = "6" -> 6 [] c = "7" -> 7 [] c = "8" -> 8 [] c = "9" -> 9

RECURSIVE SkipSpaces(_)
SkipSpaces(str) ==
    IF str /= <<>> /\ Head(str) = " " THEN SkipSpaces(Tail(str)) ELSE str

RECURSIVE ReadDigits(_, _, _)
\* the longest prefix of digits of str, as [any, v]
ReadDigits(str, any, acc) ==
    IF str /= <<>> /\ Head(str) \in Digits
    THEN ReadDigits(Tail(str), TRUE, acc * 10 + DigitVal(Head(str)))
    ELSE [any |-> any, v |-> acc]

\* parseInt(str, 10)
parseInt(str) ==
    LET t == SkipSpaces(str)
        neg == t /= <<>> /\ Head(t) = "-"
        signed == t /= <<>> /\ Head(t) \in {"-", "+"}
        d == ReadDigits(IF signed THEN Tail(t) ELSE t, FALSE, 0)
    IN  IF ~d.any THEN NaN
        ELSE Num(IF neg THEN 0 - d.v ELSE d.v)

\* number + number and number * number, NaN propagating
NumAdd(a, b) == IF a.kind = "num" /\ b.kind = "num" THEN Num(a.v + b.v) ELSE NaN
NumMul(a, b) == IF a.kind = "num" /\ b.kind = "num" THEN Num(a.v * b.v) ELSE NaN

RECURSIVE paramsGet(_, _)
\* URLSearchParams.get(key): the first value of key, or null
paramsGet(params, key) ==
    IF params = <<>> THEN None
    ELSE IF Head(params)[1] = key THEN Some(Head(params)[2])
    ELSE paramsGet(Tail(params), key)

\* !x of a nullable string: null and "" are falsy
Falsy(x) == x = None \/ x[1] = <<>>

(***************************************************************************)
(* parsing.ts                                                              *)
(***************************************************************************)
\* the default lifetime, in seconds, of a token whose expires_in is missing
DefaultExpiresIn == 3600
\* the safety buffer of isTokenExpired, in ms
BufferMs == 5 * 60 * 1000
Bearer == <<"B", "e", "a", "r", "e", "r">>

\* the expiry instant of a token that lives expiresInSeconds from now
ExpiryFrom(expiresInSeconds) == NumAdd(Num(now), NumMul(expiresInSeconds, Num(1000)))

parseSpotifyTokenFromHash_mut(hash) ==
    IF ~hash.present THEN None
    ELSE LET accessToken == paramsGet(hash.params, "access_token")
         IN  Some([accessToken |-> IF accessToken = None THEN <<>> ELSE accessToken[1],
                   tokenType |-> Bearer,
                   expiresAt |-> ExpiryFrom(Num(DefaultExpiresIn))])
\* parseSpotifyTokenFromHash(hash); hash is window.location.hash, which is ""
\* (present = FALSE) or "#" followed by the parameters
parseSpotifyTokenFromHash(hash) ==
    IF ~hash.present THEN None
    ELSE LET accessToken == paramsGet(hash.params, "access_token")
             expiresIn == paramsGet(hash.params, "expires_in")
             tokenType == paramsGet(hash.params, "token_type")
             expiresInSeconds ==
                 IF Falsy(expiresIn) THEN Num(DefaultExpiresIn) ELSE parseInt(expiresIn[1])
         IN  IF Falsy(accessToken) THEN None
             ELSE Some([accessToken |-> accessToken[1],
                        tokenType |-> IF Falsy(tokenType) THEN Bearer ELSE tokenType[1],
                        expiresAt |-> ExpiryFrom(expiresInSeconds)])

\* isTokenExpired(expiresAt, bufferMs): Date.now() >= expiresAt - bufferMs;
\* a comparison with NaN is false, and null - bufferMs is -bufferMs
isTokenExpiredWith(expiresAt, bufferMs) ==
    CASE expiresAt.kind = "num" -> now >= expiresAt.v - bufferMs
      [] expiresAt.kind = "null" -> now >= 0 - bufferMs
      [] OTHER -> FALSE
isTokenExpired_mut(expiresAt) == isTokenExpiredWith(expiresAt, 0)
isTokenExpired(expiresAt) == isTokenExpiredWith(expiresAt, BufferMs)

(***************************************************************************)
(* token-storage.ts.  The stored item is absent (NoItem), a string that    *)
(* is not JSON (Garbage), or the JSON text of an object.                   *)
(***************************************************************************)
NoItem == [kind |-> "none"]
Garbage == [kind |-> "garbage"]
\* the entry exists and holds the empty string
EmptyString == [kind |-> "blank"]
\* JSON.stringify(tokenData): NaN is written as null
jsonStringify(t) ==
    [kind |-> "json",
     accessToken |-> t.accessToken,
     tokenType |-> t.tokenType,
     expiresAt |-> IF t.expiresAt.kind = "nan" THEN JsonNull ELSE t.expiresAt]
\* JSON.parse(stored) of a JSON item
jsonParse(item) ==
    [accessToken |-> item.accessToken, tokenType |-> item.tokenType, expiresAt |-> item.expiresAt]

\* sessionStorage.removeItem(TOKEN_STORAGE_KEY)
clearToken_mut(item) == item
clearToken(item) == NoItem

\* !tokenData.expiresAt: undefined, null, NaN and 0 are falsy
FalsyNum(x) == x.kind /= "num" \/ x.v = 0

\* getStoredToken() on the stored item: val is what it returns, storage the item
\* afterwards, cleared whether it called clearToken
getStoredToken_mut(item) ==
    IF item.kind \in {"none", "blank"} THEN [val |-> None, storage |-> item, cleared |-> FALSE]
    ELSE IF item.kind = "garbage"
    THEN [val |-> None, storage |-> clearToken(item), cleared |-> TRUE]
    ELSE LET tokenData == jsonParse(item)
         IN  IF tokenData.accessToken = <<>> \/ FalsyNum(tokenData.expiresAt)
             THEN [val |-> None, storage |-> clearToken(item), cleared |-> TRUE]
             ELSE IF isTokenExpired(tokenData.expiresAt)
             THEN [val |-> None, storage |-> item, cleared |-> FALSE]
             ELSE [val |-> Some(tokenData), storage |-> item, cleared |-> FALSE]
\* !stored holds for null (no entry) and for the empty string
getStoredToken(item) ==
    IF item.kind \in {"none", "blank"} THEN [val |-> None, storage |-> item, cleared |-> FALSE]
    ELSE IF item.kind = "garbage"
    THEN [val |-> None, storage |-> clearToken(item), cleared |-> TRUE]
    ELSE LET tokenData == jsonParse(item)
         IN  IF tokenData.accessToken = <<>> \/ FalsyNum(tokenData.expiresAt)
             THEN [val |-> None, storage |-> clearToken(item), cleared |-> TRUE]
             ELSE IF isTokenExpired(tokenData.expiresAt)
             THEN [val |-> None, storage |-> clearToken(item), cleared |-> TRUE]
             ELSE [val |-> Some(tokenData), storage |-> item, cleared |-> FALSE]

\* saveToken(tokenData): sessionStorage.setItem(TOKEN_STORAGE_KEY, JSON.stringify(tokenData));
\* the session storage is taken to be available (setItem does not throw)
saveToken_mut(t) == IF storage.kind = "json" THEN storage ELSE jsonStringify(t)
saveToken(t) == jsonStringify(t)

(***************************************************************************)
(* The play page.  Inputs: the fragments a page load may carry, the prior  *)
(* content of the session storage, and the tokens saveToken is given.      *)
(***************************************************************************)
TickMs == 60 * 1000
StartMs == 10 * TickMs
Tok1 == <<"a", "b", "c">>
Tok2 == <<"x", "y", "z">>

NoHash == [present |-> FALSE, params |-> <<>>]
Hash(params) == [present |-> TRUE, params |-> params]
Fragments ==
    { NoHash,
      Hash(<< <<"access_token", Tok1>>, <<"token_type", Bearer>>,
              <<"expires_in", <<"3", "6", "0", "0">> >> >>),
      Hash(<< <<"access_token", Tok2>> >>),
      Hash(<< <<"access_token", Tok2>>, <<"expires_in", <<"3", "6", "0">> >> >>),
      Hash(<< <<"access_token", Tok1>>, <<"expires_in", <<"6", "0">> >> >>),
      Hash(<< <<"access_token", Tok1>>, <<"expires_in", <<"s", "o", "o", "n">> >> >>),
      Hash(<< <<"access_token", <<>> >>, <<"expires_in", <<"3", "6", "0", "0">> >> >>),
      Hash(<< <<"error", <<"d", "e", "n", "i", "e", "d">> >> >>) }
Searches == {"", "?round=2"}

\* lifetimes, from now, of the tokens given to saveToken
Lifetimes == {0 - 1000, BufferMs - 1000, BufferMs + 1000}
TokenAt(a, expiresAt) == [accessToken |-> a, tokenType |-> Bearer, expiresAt |-> Num(expiresAt)]

PriorStorage ==
    { NoItem, Garbage, EmptyString,
      [kind |-> "json", accessToken |-> <<>>, tokenType |-> Bearer, expiresAt |-> Undefined],
      [kind |-> "json", accessToken |-> Tok1, tokenType |-> Bearer, expiresAt |-> JsonNull],
      jsonStringify(TokenAt(Tok1, StartMs - 1000)),
      jsonStringify(TokenAt(Tok1, StartMs + 2 * TickMs)),
      jsonStringify(TokenAt(Tok1, StartMs + BufferMs + 2 * TickMs)),
      jsonStringify(TokenAt(Tok1, StartMs + 60 * TickMs)) }

Idle == pagePc \in {"unloaded", "settled"}

\* what PlayPage renders
View_mut ==
    IF pagePc = "unloaded" THEN "none"
    ELSE IF isLoading THEN "loading"
    ELSE IF pageAccessToken = None THEN "login"
    ELSE "quiz"
View ==
    IF pagePc = "unloaded" THEN "none"
    ELSE IF isLoading THEN "loading"
    ELSE IF pageAccessToken = None THEN "login"
    ELSE IF ~agentIdConfigured THEN "config"
    ELSE "quiz"

\* a stored item holds a token: an access token and a numeric expiry
IsTokenItem(item) ==
    /\ item.kind = "json"
    /\ item.accessToken /= <<>>
    /\ item.expiresAt.kind = "num"

\* what a read finds in the storage at time t, by the item's remaining validity
ItemClass(item, t) ==
    IF item.kind = "none" THEN "empty"
    ELSE IF item.kind = "blank" THEN "blank"
    ELSE IF ~IsTokenItem(item) THEN "malformed"
    ELSE IF item.expiresAt.v - t <= 0 THEN "expired"
    ELSE IF item.expiresAt.v - t < BufferMs THEN "expiring"
    ELSE IF item.expiresAt.v - t = BufferMs THEN "boundary"
    ELSE "valid"

\* the record of a read op that getStoredToken answered with r
ReadRecord(op, r) ==
    [op |-> op, found |-> ItemClass(storage, now), cleared |-> clearedSinceSave,
     absent |-> r.val = None, token |-> r.val]

\* the clock advances by a minute
Tick ==
    /\ Idle
    /\ now < StartMs + MaxTicks * TickMs
    /\ now' = now + TickMs
    /\ UNCHANGED <<storage, url, agentIdConfigured, pagePc, pageAccessToken, isLoading,
                   hocToken, hocResult, loads, loadUrl, lastRead, clearedSinceSave,
                   lastSaved, loggedOut,
                   sdkVars, quizVars>>

\* a page load starts a fresh JavaScript world: the globals of the loader, the
\* hook and QuizPlayer are as after construction
FreshTab ==
    /\ sdkReady' = FALSE
    /\ spotifyGlobal' = FALSE
    /\ callbacks' = <<>>
    /\ scripts' = 0
    /\ phase' = [i \in Instances |-> "none"]
    /\ gen' = [i \in Instances |-> 0]
    /\ isMountedRef' = [i \in Instances |-> TRUE]
    /\ cleanupSDK' = [i \in Instances |-> "none"]
    /\ playerRef' = [i \in Instances |-> NULL]
    /\ accessTokenRef' = [i \in Instances |-> FALSE]
    /\ deviceId' = [i \in Instances |-> NULL]
    /\ isReady' = [i \in Instances |-> FALSE]
    /\ hookError' = [i \in Instances |-> FALSE]
    /\ snippetTimeoutRef' = [i \in Instances |-> NULL]
    /\ timers' = <<>>
    /\ requests' = <<>>
    /\ nextId' = 1
    /\ lastReq' = [i \in Instances |-> NULL]
    /\ playing' = [i \in Instances |-> NULL]
    /\ runs' = [i \in Instances |-> [g \in Gens |-> 0]]
    /\ connected' = {}
    /\ fired' = {}
    /\ isStarted' = FALSE
    /\ session' = "idle"
    /\ replaysRef' = [song \in Songs |-> 0]
    /\ replaysUsed' = 0
    /\ tools' = <<>>
    /\ lastTool' = NoTool
    /\ lastStop' = "none"
    /\ UNCHANGED <<clientIdConfigured, startCalls, alerted>>

\* the browser loads /play, with or without an OAuth fragment: PlayPage's initial state
Navigate(search, hash) ==
    /\ Idle
    /\ loads < MaxLoads
    /\ loads' = loads + 1
    /\ url' = [path |-> "/play", search |-> search, hash |-> hash]
    /\ loadUrl' = url'
    /\ pagePc' = "effect"
    /\ pageAccessToken' = None
    /\ isLoading' = TRUE
    /\ hocToken' = None
    /\ hocResult' = None
    /\ UNCHANGED <<now, storage, agentIdConfigured, lastRead, clearedSinceSave, lastSaved,
                   loggedOut>>
    /\ FreshTab

\* window.history.replaceState(null, "", window.location.pathname + window.location.search)
replaceState_mut(u) == IF hocToken /= None THEN [u EXCEPT !.hash = NoHash] ELSE u
replaceState(u) == [path |-> u.path, search |-> u.search, hash |-> NoHash]

\* handleOAuthCallback, up to parsing the hash (or returning null when there is none)
HOC_Parse ==
    /\ pagePc = "effect"
    /\ IF ~url.hash.present
       THEN /\ hocResult' = None
            /\ pagePc' = "returned"
            /\ UNCHANGED hocToken
       ELSE /\ hocToken' = parseSpotifyTokenFromHash(url.hash)
            /\ pagePc' = "parsed"
            /\ UNCHANGED hocResult
    /\ UNCHANGED <<now, storage, url, agentIdConfigured, pageAccessToken, isLoading,
                   loads, loadUrl, lastRead, clearedSinceSave, lastSaved, loggedOut,
                   sdkVars, quizVars>>

\* handleOAuthCallback: the hash is cleared from the URL
HOC_ReplaceState ==
    /\ pagePc = "parsed"
    /\ url' = replaceState(url)
    /\ pagePc' = "stripped"
    /\ UNCHANGED <<now, storage, agentIdConfigured, pageAccessToken, isLoading,
                   hocToken, hocResult, loads, loadUrl, lastRead, clearedSinceSave,
                   lastSaved, loggedOut,
                   sdkVars, quizVars>>

\* handleOAuthCallback: the token, if any, is saved, and tokenData returned
HOC_Save ==
    /\ pagePc = "stripped"
    /\ IF hocToken /= None
       THEN /\ storage' = saveToken(hocToken[1])
            /\ clearedSinceSave' = FALSE
            /\ lastSaved' = hocToken
            /\ loggedOut' = FALSE
       ELSE UNCHANGED <<storage, clearedSinceSave, lastSaved, loggedOut>>
    /\ hocResult' = hocToken
    /\ pagePc' = "returned"
    /\ UNCHANGED <<now, url, agentIdConfigured, pageAccessToken, isLoading,
                   hocToken, loads, loadUrl, lastRead, sdkVars, quizVars>>

\* the rest of PlayPage's mount effect, after handleOAuthCallback returned
EffectSettle ==
    /\ pagePc = "returned"
    /\ pagePc' = "settled"
    /\ isLoading' = FALSE
    /\ IF hocResult /= None
       THEN /\ pageAccessToken' = Some(hocResult[1].accessToken)
            /\ UNCHANGED <<storage, lastRead, clearedSinceSave, lastSaved>>
       ELSE LET r == getStoredToken(storage)
            IN  /\ storage' = r.storage
                /\ lastRead' = ReadRecord("getStoredToken", r)
                /\ clearedSinceSave' = (clearedSinceSave \/ r.cleared)
                /\ lastSaved' = IF r.cleared THEN None ELSE lastSaved
                /\ pageAccessToken' = IF r.val /= None THEN Some(r.val[1].accessToken)
                                      ELSE pageAccessToken
    \* the locals of the effect and of handleOAuthCallback go out of scope
    /\ hocToken' = None
    /\ hocResult' = None
    /\ UNCHANGED <<now, url, agentIdConfigured, loads, loadUrl, loggedOut,
                   sdkVars, quizVars>>

\* handleLogout: clearToken(); setAccessToken(null)
HandleLogout ==
    /\ View = "quiz"
    /\ storage' = clearToken(storage)
    /\ clearedSinceSave' = TRUE
    /\ lastSaved' = None
    /\ pageAccessToken' = None
    /\ loggedOut' = TRUE
    \* the page re-renders without SpotifyProvider: the hook's effect cleanup runs
    /\ IF phase[Hook] = "mounted" THEN Unmount(Hook) ELSE UNCHANGED sdkVars
    /\ UNCHANGED <<now, url, agentIdConfigured, pagePc, isLoading, hocToken, hocResult,
                   loads, loadUrl, lastRead, quizVars>>

\* the exported functions of token-storage.ts, called between page events
SaveToken(t) ==
    /\ Idle
    /\ storage' = saveToken(t)
    /\ clearedSinceSave' = FALSE
    /\ lastSaved' = Some(t)
    /\ loggedOut' = FALSE
    /\ UNCHANGED <<now, url, agentIdConfigured, pagePc, pageAccessToken, isLoading,
                   hocToken, hocResult, loads, loadUrl, lastRead, sdkVars, quizVars>>

ClearToken ==
    /\ Idle
    /\ storage' = clearToken(storage)
    /\ clearedSinceSave' = TRUE
    /\ lastSaved' = None
    /\ UNCHANGED <<now, url, agentIdConfigured, pagePc, pageAccessToken, isLoading,
                   hocToken, hocResult, loads, loadUrl, lastRead, loggedOut,
                   sdkVars, quizVars>>

\* getStoredToken, getAccessToken or hasValidToken: each reads through getStoredToken
ReadToken(op) ==
    /\ Idle
    /\ LET r == getStoredToken(storage)
       IN  /\ storage' = r.storage
           /\ lastRead' = ReadRecord(op, r)
           /\ clearedSinceSave' = (clearedSinceSave \/ r.cleared)
           /\ lastSaved' = IF r.cleared THEN None ELSE lastSaved
    /\ UNCHANGED <<now, url, agentIdConfigured, pagePc, pageAccessToken, isLoading,
                   hocToken, hocResult, loads, loadUrl, loggedOut,
                   sdkVars, quizVars>>

\* PlayPage renders SpotifyProvider and QuizPlayer: the hook's mount effect runs
RenderQuiz ==
    /\ View = "quiz"
    /\ Mount(Hook)
    /\ UNCHANGED <<tokenVars, quizVars>>

GetStoredToken == ReadToken("getStoredToken")
GetAccessToken == ReadToken("getAccessToken")
HasValidToken == ReadToken("hasValidToken")

InitToken ==
    /\ now = StartMs
    /\ storage \in PriorStorage
    /\ url = [path |-> "/", search |-> "", hash |-> NoHash]
    /\ agentIdConfigured \in BOOLEAN
    /\ pagePc = "unloaded"
    /\ pageAccessToken = None
    /\ isLoading = TRUE
    /\ hocToken = None
    /\ hocResult = None
    /\ loads = 0
    /\ loadUrl = url
    /\ lastRead = [op |-> "none", found |-> "empty", cleared |-> FALSE,
                   absent |-> TRUE, token |-> None]
    /\ clearedSinceSave = FALSE
    /\ lastSaved = None
    /\ loggedOut = FALSE

(***************************************************************************)
(* QuizPlayer: the client tools the voice agent calls, and Start / End.    *)
(* QuizPlayer is rendered inside SpotifyProvider, whose hook is Hook.      *)
(***************************************************************************)
\* replays allowed per song
MAX_REPLAYS == 2

\* the replay accounting of play_song_snippet on the per-song counts and the
\* displayed count: granted says whether the tool goes on to playSnippet
replayAccounting_mut(ref, used, song, isReplay) ==
    IF isReplay
    THEN IF ref[song] > MAX_REPLAYS
         THEN [granted |-> FALSE, ref |-> ref, used |-> used]
         ELSE [granted |-> TRUE, ref |-> [ref EXCEPT ![song] = @ + 1], used |-> ref[song] + 1]
    ELSE [granted |-> TRUE, ref |-> [ref EXCEPT ![song] = 0], used |-> 0]
replayAccounting(ref, used, song, isReplay) ==
    IF isReplay
    THEN LET currentReplays == ref[song]
         IN  IF currentReplays >= MAX_REPLAYS
             THEN [granted |-> FALSE, ref |-> ref, used |-> used]
             ELSE [granted |-> TRUE,
                   ref |-> [ref EXCEPT ![song] = currentReplays + 1],
                   used |-> currentReplays + 1]
    ELSE [granted |-> TRUE, ref |-> [ref EXCEPT ![song] = 0], used |-> 0]

\* what play_song_snippet returns once playSnippet has settled with status:
\* the strings "Playing song", "Replaying song (n replays remaining)" and
\* "Error playing song: ...", or the tool's promise rejecting ("thrown")
playSongSnippetResult_mut(status, isReplay, remaining) ==
    IF status \in {"rejected", "failed"} THEN [kind |-> "thrown", remaining |-> 0]
    ELSE IF isReplay THEN [kind |-> "replaying", remaining |-> remaining]
    ELSE [kind |-> "playing", remaining |-> 0]
playSongSnippetResult(status, isReplay, remaining) ==
    IF status \in {"rejected", "failed"} THEN [kind |-> "error", remaining |-> 0]
    ELSE IF isReplay THEN [kind |-> "replaying", remaining |-> remaining]
    ELSE [kind |-> "playing", remaining |-> 0]

Pending == [kind |-> "pending", remaining |-> 0]

\* the play_song_snippet tool up to its await: the replay accounting, then
\* either the refusal string or playSnippet up to its await (or its throw).
\* The agent has the result of a tool call before it makes the next one.
ToolPlaySongSnippet(song, isReplay) ==
    /\ phase[Hook] = "mounted"
    /\ \A k \in 1..Len(tools) : tools[k].result /= Pending
    /\ LET a == replayAccounting(replaysRef, replaysUsed, song, isReplay)
       IN  /\ replaysRef' = a.ref
           /\ replaysUsed' = a.used
           /\ lastTool' = [song |-> song, isReplay |-> isReplay, refused |-> ~a.granted]
           /\ IF ~a.granted
              THEN UNCHANGED <<tools, sdkVars>>
              ELSE /\ PlaySnippet(Hook)
                   /\ tools' = Append(tools, [song |-> song, isReplay |-> isReplay,
                                              req |-> nextId, result |-> Pending])
    /\ UNCHANGED <<isStarted, session, lastStop, startCalls, alerted, tokenVars>>

\* the tool after its await: playSnippet resolved, or threw and was caught
ToolReturn(k) ==
    /\ k \in 1..Len(tools)
    /\ tools[k].result = Pending
    /\ requests[tools[k].req].status \in {"rejected", "failed", "ok"}
    /\ tools' = [tools EXCEPT ![k].result =
                    playSongSnippetResult(requests[tools[k].req].status, tools[k].isReplay,
                                          MAX_REPLAYS - replaysRef[tools[k].song])]
    /\ UNCHANGED <<isStarted, session, replaysRef, replaysUsed, lastTool, lastStop,
                   startCalls, alerted, sdkVars, tokenVars>>

\* what stop_playback ends with once stopPlayback has settled with status: the
\* string "Playback stopped", or the tool's promise rejecting ("thrown")
stopPlaybackToolResult(status) == IF status = "failed" THEN "thrown" ELSE "stopped"

\* the stop_playback tool: await stopPlayback(); return "Playback stopped".
\* stopPlayback clears the pending automatic stop and, when the hook has a
\* player, awaits its pause(), which resolves (pauseOk) or rejects
ToolStopPlayback(pauseOk) ==
    /\ phase[Hook] = "mounted"
    /\ playerRef[Hook] = NULL => pauseOk
    /\ IF pauseOk
       THEN /\ StopPlayback(Hook)
            /\ lastStop' = stopPlaybackToolResult("ok")
       ELSE /\ nextId <= MaxRequests
            /\ nextId' = nextId + 1
            /\ lastReq' = [lastReq EXCEPT ![Hook] = nextId]
            /\ requests' = Append(requests, [inst |-> Hook, kind |-> "stop", status |-> "failed",
                                             sawPending |-> PendingOf(Hook, timers) /= <<>>,
                                             live |-> TRUE])
            /\ timers' = IF snippetTimeoutRef[Hook] /= NULL
                         THEN clearTimeout(timers, snippetTimeoutRef[Hook])
                         ELSE timers
            /\ snippetTimeoutRef' = [snippetTimeoutRef EXCEPT ![Hook] = NULL]
            /\ lastStop' = stopPlaybackToolResult("failed")
            /\ UNCHANGED <<loaderVars, phase, gen, isMountedRef, cleanupSDK, playerRef,
                           accessTokenRef, deviceId, isReady, hookError, playing, histVars>>
    /\ UNCHANGED <<isStarted, session, replaysRef, replaysUsed, tools, lastTool, startCalls,
                   alerted, tokenVars>>

\* the Start Quiz button is rendered disabled
startDisabled == ~isReady[Hook]

\* handleStart
handleStartGuard_mut == TRUE
handleStartGuard == isReady[Hook]
HandleStart ==
    /\ phase[Hook] = "mounted"
    /\ ~isStarted
    /\ startCalls < MaxStarts
    /\ IF ~handleStartGuard
       THEN /\ alerted' = TRUE
            /\ UNCHANGED <<isStarted, session, startCalls>>
       ELSE /\ isStarted' = TRUE
            /\ session' = "starting"
            /\ startCalls' = startCalls + 1
            /\ UNCHANGED alerted
    /\ UNCHANGED <<replaysRef, replaysUsed, tools, lastTool, lastStop, sdkVars, tokenVars>>

\* conversation.startSession resolves: handleStart ends
StartSessionResolve ==
    /\ session = "starting"
    /\ session' = "connected"
    /\ UNCHANGED <<isStarted, replaysRef, replaysUsed, tools, lastTool, lastStop,
                   startCalls, alerted, sdkVars, tokenVars>>

\* conversation.startSession rejects: the await in handleStart throws, and
\* handleStart has no handler for it
StartSessionReject ==
    /\ session = "starting"
    /\ session' = "failed"
    /\ UNCHANGED <<isStarted, replaysRef, replaysUsed, tools, lastTool, lastStop,
                   startCalls, alerted, sdkVars, tokenVars>>

\* handleEnd: await conversation.endSession(); setIsStarted(false)
HandleEnd ==
    /\ isStarted
    /\ session \in {"connected", "failed"}
    /\ session' = "idle"
    /\ isStarted' = FALSE
    /\ UNCHANGED <<replaysRef, replaysUsed, tools, lastTool, lastStop, startCalls,
                   alerted, sdkVars, tokenVars>>

InitQuiz ==
    /\ isStarted = FALSE
    /\ session = "idle"
    /\ replaysRef = [song \in Songs |-> 0]
    /\ replaysUsed = 0
    /\ tools = <<>>
    /\ lastTool = NoTool
    /\ lastStop = "none"
    /\ startCalls = 0
    /\ alerted = FALSE

(***************************************************************************)
(* Specifications.                                                         *)
(***************************************************************************)
Init == InitSdk /\ InitToken /\ InitQuiz

\* the SDK loader: any number of hook instances mounting and unmounting
InitLoader == Init /\ agentIdConfigured /\ storage = NoItem

NextLoader ==
    \/ \E i \in Instances : Mount(i) /\ UNCHANGED <<tokenVars, quizVars>>
    \/ \E i \in Instances : Unmount(i) /\ UNCHANGED <<tokenVars, quizVars>>
    \/ SDKReadySignal /\ UNCHANGED <<tokenVars, quizVars>>

SpecLoader == InitLoader /\ [][NextLoader]_vars

\* the fairness of the loader: a script that was injected loads and signals ready
SpecLoaderLive == SpecLoader /\ WF_vars(SDKReadySignal /\ UNCHANGED <<tokenVars, quizVars>>)

\* the SDK loader when continuations may throw at the ready signal
NextLoaderThrowing ==
    \/ \E i \in Instances : Mount(i) /\ UNCHANGED <<tokenVars, quizVars>>
    \/ \E i \in Instances : Unmount(i) /\ UNCHANGED <<tokenVars, quizVars>>
    \/ \E throwers \in SUBSET Queued :
          SDKReadySignalThrowing(throwers) /\ UNCHANGED <<tokenVars, quizVars>>

SpecLoaderThrowing == InitLoader /\ [][NextLoaderThrowing]_vars

InitPlayback == Init /\ clientIdConfigured /\ agentIdConfigured /\ storage = NoItem

NextPlayback ==
    \/ Mount(Hook) /\ UNCHANGED <<tokenVars, quizVars>>
    \/ Unmount(Hook) /\ UNCHANGED <<tokenVars, quizVars>>
    \/ SDKReadySignal /\ UNCHANGED <<tokenVars, quizVars>>
    \/ PlayerReady(Hook) /\ UNCHANGED <<tokenVars, quizVars>>
    \/ PlayerNotReady(Hook) /\ UNCHANGED <<tokenVars, quizVars>>
    \/ SetAccessToken(Hook) /\ UNCHANGED <<tokenVars, quizVars>>
    \/ PlaySnippet(Hook) /\ UNCHANGED <<tokenVars, quizVars>>
    \/ \E r \in RequestIds : ServerAccept(r) /\ UNCHANGED <<tokenVars, quizVars>>
    \/ \E r \in RequestIds : FetchOk(r) /\ UNCHANGED <<tokenVars, quizVars>>
    \/ \E r \in RequestIds : FetchFail(r) /\ UNCHANGED <<tokenVars, quizVars>>
    \/ StopPlayback(Hook) /\ UNCHANGED <<tokenVars, quizVars>>
    \/ TimerFire /\ UNCHANGED <<tokenVars, quizVars>>

SpecPlayback == InitPlayback /\ [][NextPlayback]_vars

\* the page and the token storage
InitPage == Init /\ clientIdConfigured /\ agentIdConfigured

NextToken ==
    \/ Tick
    \/ \E q \in Searches, h \in Fragments : Navigate(q, h)
    \/ HOC_Parse
    \/ HOC_ReplaceState
    \/ HOC_Save
    \/ EffectSettle
    \/ HandleLogout
    \/ \E d \in Lifetimes : SaveToken(TokenAt(Tok2, now + d))
    \/ ClearToken
    \/ GetStoredToken
    \/ GetAccessToken
    \/ HasValidToken

SpecToken == InitPage /\ [][NextToken]_vars

\* the page and the token storage when nothing calls clearToken (no logout):
\* only getStoredToken itself removes the entry
NextReads ==
    \/ Tick
    \/ \E q \in Searches, h \in Fragments : Navigate(q, h)
    \/ HOC_Parse
    \/ HOC_ReplaceState
    \/ HOC_Save
    \/ EffectSettle
    \/ \E d \in Lifetimes : SaveToken(TokenAt(Tok2, now + d))
    \/ GetStoredToken
    \/ GetAccessToken
    \/ HasValidToken

SpecReads == InitPage /\ [][NextReads]_vars

\* the page as the browser drives it: loads, the mount effect, the quiz UI it
\* renders (a remount re-runs the hook's effect), logout; the agent ID
\* configured or not
NextPage ==
    \/ Tick
    \/ \E q \in Searches, h \in Fragments : Navigate(q, h)
    \/ HOC_Parse
    \/ HOC_ReplaceState
    \/ HOC_Save
    \/ EffectSettle
    \/ RenderQuiz
    \/ Unmount(Hook) /\ View = "quiz" /\ UNCHANGED <<tokenVars, quizVars>>
    \/ SDKReadySignal /\ UNCHANGED <<tokenVars, quizVars>>
    \/ HandleLogout

InitPageUI == Init /\ clientIdConfigured

SpecPage == InitPageUI /\ [][NextPage]_vars

\* the quiz UI: the hook becoming ready, Start and End
InitQuizStart == Init /\ clientIdConfigured /\ agentIdConfigured /\ storage = NoItem

NextQuizStart ==
    \/ Mount(Hook) /\ UNCHANGED <<tokenVars, quizVars>>
    \/ Unmount(Hook) /\ UNCHANGED <<tokenVars, quizVars>>
    \/ SDKReadySignal /\ UNCHANGED <<tokenVars, quizVars>>
    \/ PlayerReady(Hook) /\ UNCHANGED <<tokenVars, quizVars>>
    \/ PlayerNotReady(Hook) /\ UNCHANGED <<tokenVars, quizVars>>
    \/ HandleStart
    \/ StartSessionResolve
    \/ StartSessionReject
    \/ HandleEnd

SpecQuizStart == InitQuizStart /\ [][NextQuizStart]_vars

\* the quiz UI with the Spotify client ID configured or not
SpecQuizConfig == InitLoader /\ [][NextQuizStart]_vars

\* the quiz UI: the agent calling play_song_snippet
NextQuizTools ==
    \/ Mount(Hook) /\ UNCHANGED <<tokenVars, quizVars>>
    \/ SDKReadySignal /\ UNCHANGED <<tokenVars, quizVars>>
    \/ PlayerReady(Hook) /\ UNCHANGED <<tokenVars, quizVars>>
    \/ SetAccessToken(Hook) /\ UNCHANGED <<tokenVars, quizVars>>
    \/ \E song \in Songs, isReplay \in BOOLEAN : ToolPlaySongSnippet(song, isReplay)
    \/ \E r \in RequestIds : ServerAccept(r) /\ UNCHANGED <<tokenVars, quizVars>>
    \/ \E r \in RequestIds : FetchOk(r) /\ UNCHANGED <<tokenVars, quizVars>>
    \/ \E r \in RequestIds : FetchFail(r) /\ UNCHANGED <<tokenVars, quizVars>>
    \/ \E k \in RequestIds : ToolReturn(k)
    \/ TimerFire /\ UNCHANGED <<tokenVars, quizVars>>

SpecQuizTools == InitQuizStart /\ [][NextQuizTools]_vars

\* the quiz UI: clips playing and the agent calling stop_playback
NextQuizStop ==
    \/ Mount(Hook) /\ UNCHANGED <<tokenVars, quizVars>>
    \/ SDKReadySignal /\ UNCHANGED <<tokenVars, quizVars>>
    \/ PlayerReady(Hook) /\ UNCHANGED <<tokenVars, quizVars>>
    \/ SetAccessToken(Hook) /\ UNCHANGED <<tokenVars, quizVars>>
    \/ PlaySnippet(Hook) /\ UNCHANGED <<tokenVars, quizVars>>
    \/ \E r \in RequestIds : ServerAccept(r) /\ UNCHANGED <<tokenVars, quizVars>>
    \/ \E r \in RequestIds : FetchOk(r) /\ UNCHANGED <<tokenVars, quizVars>>
    \/ \E r \in RequestIds : FetchFail(r) /\ UNCHANGED <<tokenVars, quizVars>>
    \/ \E pauseOk \in BOOLEAN : ToolStopPlayback(pauseOk)
    \/ TimerFire /\ UNCHANGED <<tokenVars, quizVars>>

SpecQuizStop == InitQuizStart /\ [][NextQuizStop]_vars

Next ==
    NextLoader \/ NextPlayback \/ NextToken \/ NextPage \/ NextQuizStart \/ NextQuizTools
        \/ NextQuizStop \/ NextReads \/ NextLoaderThrowing
Spec == Init /\ [][Next]_vars

(***************************************************************************)
(* The SDK loader (checked under SpecLoader, C2 under SpecLoaderLive).     *)
(***************************************************************************)
\* instance i is a consumer of the loader whose effect run g is in force
Consumer(i, g) == clientIdConfigured /\ phase[i] = "mounted" /\ gen[i] = g

\* C1: whatever the mounts and unmounts, before or after the ready signal, the
\* document never holds more than one script element for the SDK URL, and a
\* script is added only while the SDK is not ready and no such script exists.
C1_SingleScript ==
    /\ [](scripts <= 1)
    /\ [][scripts' /= scripts => (~sdkReady /\ scripts = 0 /\ scripts' = 1)]_vars

\* C1 witness: two instances have mounted, one of them twice, the SDK is ready,
\* and there is one script.
C1_Witness ==
    /\ sdkReady
    /\ scripts = 1
    /\ \E i, j \in Instances : i /= j /\ gen[i] >= 2 /\ gen[j] >= 1

\* C2: a consumer that mounts before the ready signal is in the queue exactly
\* once while it stays mounted; at the ready signal the continuation of every
\* consumer still mounted runs, once, and no continuation ever runs twice; and
\* with the script eventually signalling ready, every queued consumer gets its
\* continuation run unless it unmounts first.
C2_QueuedAndRun ==
    /\ [](\A i \in Instances, g \in Gens :
            /\ (~sdkReady /\ Consumer(i, g)) => Count(callbacks, <<i, g>>) = 1
            /\ runs[i][g] <= 1)
    /\ [][(~sdkReady /\ sdkReady') =>
            \A i \in Instances, g \in Gens :
                Consumer(i, g) => (runs[i][g] = 0 /\ runs'[i][g] = 1 /\ playerRef'[i] = g)]_vars
    /\ \A i \in Instances, g \in Gens :
            (~sdkReady /\ Consumer(i, g)) ~> (runs[i][g] = 1 \/ ~Consumer(i, g))

\* C2 witness: the first requester and a late-arriving one were both queued
\* before the signal, and after it both continuations have run.
C2_Witness ==
    /\ sdkReady
    /\ \E i, j \in Instances :
          /\ i /= j
          /\ Consumer(i, 1) /\ Consumer(j, 1)
          /\ cleanupSDK[i] = "remove" /\ cleanupSDK[j] = "remove"
          /\ runs[i][1] = 1 /\ runs[j][1] = 1

\* C3: the queue holds only continuations of consumers that are mounted (an
\* unmount removes the entry); a continuation runs only while its own effect
\* run is in force, never after its unmount and never for a later mount; and a
\* player exists only for the effect run in force of a mounted instance.
C3_UnmountedNeverRuns ==
    /\ [](/\ \A k \in 1..Len(callbacks) : Consumer(callbacks[k][1], callbacks[k][2])
          /\ \A c \in connected : Consumer(c[1], c[2])
          /\ \A i \in Instances : playerRef[i] /= NULL => Consumer(i, playerRef[i]))
    /\ [][\A i \in Instances, g \in Gens :
            runs'[i][g] /= runs[i][g] => (phase'[i] = "mounted" /\ gen'[i] = g)]_vars

\* C3 witness: after the ready signal, an instance that unmounted before it has
\* no continuation run and no player, while another instance got its player.
C3_Witness ==
    /\ sdkReady
    /\ \E i, j \in Instances :
          /\ i /= j
          /\ phase[i] = "unmounted" /\ cleanupSDK[i] = "remove"
          /\ \A g \in Gens : runs[i][g] = 0
          /\ playerRef[i] = NULL
          /\ Consumer(j, gen[j]) /\ playerRef[j] /= NULL

(***************************************************************************)
(* Clip playback (checked under SpecPlayback).                             *)
(***************************************************************************)
\* the step issues request n of instance i, of the given kind
Issued(i, kind) ==
    /\ Len(requests') = Len(requests) + 1
    /\ requests'[Len(requests')].inst = i
    /\ requests'[Len(requests')].kind = kind

\* the step completes the playSnippet call r successfully
Completed(r) ==
    /\ r \in 1..Len(requests)
    /\ requests[r].status = "accepted"
    /\ requests'[r].status = "ok"

InSeq(x, s) == \E k \in 1..Len(s) : s[k] = x

\* C4: an automatic stop fires only while the play request it was scheduled for
\* is still the latest play or stop request of its hook: no stop scheduled for
\* an earlier play request fires after a later play or stop request was issued.
C4_Original ==
    [][\A r \in fired' \ fired : lastReq[requests[r].inst] = r]_vars

\* C5: a playSnippet request issued while an automatic stop is pending leaves
\* none of the earlier stops pending, and when it completes successfully exactly
\* one automatic stop is pending for the hook: its own.
C5_Original ==
    [][\A i \in Instances :
        /\ (Issued(i, "play") /\ PendingOf(i, timers) /= <<>>) => PendingOf(i, timers') = <<>>
        /\ \A r \in RequestIds :
              (Completed(r) /\ requests[r].inst = i /\ requests[r].sawPending)
                  => PendingOf(i, timers') = <<r>>]_vars

\* C6: when a playSnippet call completes successfully its automatic stop is
\* pending; while the hook stays mounted and the call remains its latest
\* request, that stop leaves the pending timers only by firing, and its firing
\* pauses the player and leaves no stop pending; a stopPlayback call leaves no
\* automatic stop of the hook pending.
C6_Original ==
    [][\A i \in Instances :
        /\ \A r \in RequestIds :
              (Completed(r) /\ requests[r].inst = i) => InSeq(r, timers')
        /\ \A r \in RequestIds :
              ( /\ r = lastReq[i] /\ InSeq(r, timers) /\ ~InSeq(r, timers')
                /\ isMountedRef[i] /\ isMountedRef'[i] /\ phase'[i] = "mounted"
                /\ nextId' = nextId )
                  => (r \in fired' \ fired /\ playing'[i] = NULL /\ PendingOf(i, timers') = <<>>)
        /\ Issued(i, "stop") => PendingOf(i, timers') = <<>>]_vars

(***************************************************************************)
(* The token storage and the play page (checked under SpecToken).          *)
(***************************************************************************)
\* the step is a call of getStoredToken: by a caller, or by the mount effect
\* after handleOAuthCallback returned null
GetStoredTokenStep ==
    \/ GetStoredToken
    \/ (pagePc = "returned" /\ hocResult = None /\ pagePc' = "settled")

\* the token a JSON item stores
StoredToken(item) ==
    [accessToken |-> item.accessToken, tokenType |-> item.tokenType,
     expiresAt |-> item.expiresAt]

\* C7: getStoredToken reports absent whenever the stored token's remaining
\* validity is below the 5-minute buffer (already expired included), and returns
\* the stored token, leaving it stored, whenever it exceeds the buffer.
C7_BufferedExpiry ==
    [][GetStoredTokenStep =>
        /\ (IsTokenItem(storage) /\ storage.expiresAt.v - now < BufferMs)
              => (lastRead'.absent /\ lastRead'.token = None)
        /\ (IsTokenItem(storage) /\ storage.expiresAt.v - now > BufferMs)
              => ( /\ ~lastRead'.absent
                   /\ lastRead'.token = Some(StoredToken(storage))
                   /\ storage' = storage )]_vars

\* C7 witness: getStoredToken found a token not yet expired but within the
\* buffer, and reported it absent.
C7_Witness ==
    /\ lastRead.op = "getStoredToken"
    /\ lastRead.found = "expiring"
    /\ lastRead.absent

\* C8: from a clearToken until the next saveToken the storage holds no item and
\* every read (getStoredToken, getAccessToken, hasValidToken) reports absent,
\* whatever the storage held before the clearToken.
C8_ClearedReadsAbsent ==
    /\ clearedSinceSave => storage = NoItem
    /\ lastRead.cleared => (lastRead.absent /\ lastRead.token = None /\ lastRead.found = "empty")

\* C8 witness: the page was authenticated from a stored token, clearToken ran,
\* and a later hasValidToken reported absent.
C8_Witness ==
    /\ clearedSinceSave
    /\ pageAccessToken /= None
    /\ lastRead.op = "hasValidToken"
    /\ lastRead.cleared
    /\ lastRead.absent

\* C9: once handleOAuthCallback has passed its replaceState on a load that
\* carried a fragment, the URL has no fragment and the path and query it was
\* loaded with, token or no token; the storage is written only after the
\* fragment is gone; on a load without a fragment the URL and the storage are
\* left as they are and null is returned.
C9_FragmentStripped ==
    /\ [](pagePc \in {"stripped", "returned", "settled"} =>
            ( /\ ~url.hash.present
              /\ url.path = loadUrl.path
              /\ url.search = loadUrl.search ))
    /\ [][(pagePc \in {"effect", "parsed", "stripped"} /\ storage' /= storage) =>
            (loadUrl.hash.present /\ ~url.hash.present /\ ~url'.hash.present)]_vars
    /\ [][(pagePc = "effect" /\ ~url.hash.present) =>
            (pagePc' = "returned" /\ hocResult' = None /\ url' = url /\ storage' = storage)]_vars

\* C9 witness: the load carried a fragment from which no token could be parsed
\* and a query; the fragment is gone and the query is still there.
C9_Witness ==
    /\ pagePc = "stripped"
    /\ loadUrl.hash.present
    /\ hocToken = None
    /\ ~url.hash.present
    /\ url.search = "?round=2"

\* the fragment is missing, or carries no (or an empty) access_token
MalformedOrMissing(h) == ~h.present \/ Falsy(paramsGet(h.params, "access_token"))

\* C10 as stated: on a load with a missing or malformed fragment
\* handleOAuthCallback returns null and the page settles on the login screen,
\* whatever the session storage held.
C10_Original ==
    /\ (pagePc = "returned" /\ MalformedOrMissing(loadUrl.hash)) => hocResult = None
    /\ (pagePc = "settled" /\ MalformedOrMissing(loadUrl.hash)) => View = "login"

\* C10 as amended: on a load with a missing or malformed fragment
\* handleOAuthCallback returns null, and the page settles on the login screen
\* unless the storage holds a token whose remaining validity exceeds the buffer:
\* then it settles authenticated with that stored token.
C10_Amended ==
    /\ []((pagePc = "returned" /\ MalformedOrMissing(loadUrl.hash)) => hocResult = None)
    /\ [][(pagePc = "returned" /\ pagePc' = "settled" /\ MalformedOrMissing(loadUrl.hash)) =>
            IF IsTokenItem(storage) /\ storage.expiresAt.v - now > BufferMs
            THEN pageAccessToken' = Some(storage.accessToken) /\ View' /= "login"
            ELSE pageAccessToken' = None /\ View' = "login"]_vars

\* C10 witness: a load whose fragment carries no access_token has settled on
\* the login screen.
C10_Witness ==
    /\ pagePc = "settled"
    /\ loadUrl.hash.present
    /\ MalformedOrMissing(loadUrl.hash)
    /\ View = "login"

\* a token whose remaining validity exceeds the buffer
AboveBuffer(t) == t.expiresAt.kind = "num" /\ t.expiresAt.v - now > BufferMs

PlaySnippetFailed(k) == requests[tools[k].req].status \in {"rejected", "failed"}

\* C12: no call of the play_song_snippet tool ends with its promise rejected;
\* a call whose playSnippet failed returns the "Error playing song:" string, and
\* only such a call does.
C12_ToolNeverRejects ==
    \A k \in 1..Len(tools) :
        /\ tools[k].result.kind /= "thrown"
        /\ (PlaySnippetFailed(k) /\ tools[k].result /= Pending) => tools[k].result.kind = "error"
        /\ tools[k].result.kind = "error" => PlaySnippetFailed(k)

\* C12 witness: one call returned the error string because playSnippet threw
\* before its request, another because the endpoint answered not ok.
C12_Witness ==
    \E k, l \in 1..Len(tools) :
        /\ tools[k].result.kind = "error"
        /\ requests[tools[k].req].status = "rejected"
        /\ tools[l].result.kind = "error"
        /\ requests[tools[l].req].status = "failed"

RECURSIVE GrantedIn(_, _, _)
\* the replays of song in the log of calls that went on to playSnippet, since
\* the song's last play that was not a replay, counted from n on
GrantedIn(log, song, n) ==
    IF log = <<>> THEN n
    ELSE LET e == Head(log)
         IN  IF e.song /= song THEN GrantedIn(Tail(log), song, n)
             ELSE IF ~e.isReplay THEN GrantedIn(Tail(log), song, 0)
             ELSE GrantedIn(Tail(log), song, n + 1)

Granted(song) == GrantedIn(tools, song, 0)

\* the step is a call of play_song_snippet, for song, as a replay
ReplayCall(song) ==
    /\ (lastTool' /= lastTool \/ Len(tools') /= Len(tools))
    /\ lastTool'.song = song
    /\ lastTool'.isReplay

\* C13: for every song the replays granted since its last non-replay play never
\* exceed MAX_REPLAYS; a replay asked for at the limit is refused, makes no
\* playSnippet call, and leaves the per-song counts, the displayed count, the
\* timers and the playback as they were; below the limit it is granted.
C13_ReplayLimit ==
    /\ [](\A song \in Songs : Granted(song) <= MAX_REPLAYS)
    /\ [][\A song \in Songs :
            (ReplayCall(song) /\ Granted(song) = MAX_REPLAYS)
            => ( /\ lastTool'.refused
                 /\ tools' = tools
                 /\ requests' = requests
                 /\ timers' = timers
                 /\ playing' = playing
                 /\ replaysRef' = replaysRef
                 /\ replaysUsed' = replaysUsed )]_vars
    /\ [][\A song \in Songs :
            (ReplayCall(song) /\ Granted(song) < MAX_REPLAYS)
            => ( /\ ~lastTool'.refused
                 /\ Len(tools') = Len(tools) + 1
                 /\ replaysUsed' = Granted(song) + 1 )]_vars

\* C13 witness: a song was played and replayed twice, and a third replay was
\* refused.
C13_Witness ==
    /\ Len(tools) = 3
    /\ \A k \in 1..3 : tools[k].song = lastTool.song
    /\ tools[1].result.kind = "playing"
    /\ tools[2].result.kind = "replaying"
    /\ tools[3].result.kind = "replaying"
    /\ lastTool.isReplay
    /\ lastTool.refused
    /\ replaysUsed = MAX_REPLAYS

\* C14: startSession is called, and isStarted set, only in a handleStart that
\* finds the player ready, the Start button then being enabled; a handleStart
\* that finds it not ready alerts and leaves isStarted false, the session and
\* the count of startSession calls as they were.
C14_StartOnlyWhenReady ==
    /\ [][(startCalls' /= startCalls \/ (~isStarted /\ isStarted') \/
           (session /= "starting" /\ session' = "starting"))
            => (isReady[Hook] /\ ~startDisabled /\ startCalls' = startCalls + 1)]_vars
    /\ [][alerted' /= alerted
            => (~isReady[Hook] /\ startDisabled /\ ~isStarted /\ ~isStarted'
                /\ startCalls' = startCalls /\ session' = session)]_vars

\* C14 witness: handleStart ran while the connected player was not ready: it
\* alerted, no session was started and isStarted is false.
C14_Witness ==
    /\ alerted
    /\ ~isReady[Hook]
    /\ playerRef[Hook] /= NULL
    /\ ~isStarted
    /\ startCalls = 0
    /\ session = "idle"

\* C19: when startSession has rejected, the quiz is not left in the started
\* state.
C19_Original == session = "failed" => ~isStarted

(***************************************************************************)
(* The page and the quiz UI it renders (checked under SpecPage).           *)
(***************************************************************************)
\* C15: the quiz UI (SpotifyProvider, hence the hook and the SDK loader) is
\* mounted only while the load-time check has finished, the page holds an
\* access token and the agent ID is configured; without an agent ID the hook is
\* never mounted, no SDK script is injected, and an authenticated page shows
\* the configuration message.
C15_QuizGated ==
    /\ phase[Hook] = "mounted" =>
          ( /\ pagePc = "settled"
            /\ ~isLoading
            /\ pageAccessToken /= None
            /\ agentIdConfigured
            /\ View = "quiz" )
    /\ ~agentIdConfigured =>
          ( /\ phase[Hook] = "none"
            /\ scripts = 0
            /\ (pagePc = "settled" /\ pageAccessToken /= None) => View = "config" )

\* C15 witness: a load without fragment was authenticated from the storage and
\* the quiz UI is mounted with its player.
C15_Witness ==
    /\ phase[Hook] = "mounted"
    /\ playerRef[Hook] /= NULL
    /\ View = "quiz"
    /\ ~loadUrl.hash.present

\* C16: handleLogout, taken from the quiz view, empties the storage, drops the
\* page's token and shows the login screen (the quiz UI unmounts); and as long
\* as no token has been saved since (no load with a new OAuth token), the
\* storage stays empty and every page load settles on the login screen.
C16_LogoutInvalidates ==
    /\ [][(~loggedOut /\ loggedOut') =>
            ( /\ View = "quiz"
              /\ storage' = NoItem
              /\ pageAccessToken' = None
              /\ View' = "login"
              /\ phase'[Hook] /= "mounted" )]_vars
    /\ [](loggedOut =>
            ( /\ storage = NoItem
              /\ pageAccessToken = None
              /\ phase[Hook] /= "mounted"
              /\ pagePc = "settled" => View = "login" ))

\* C16 witness: after a logout the page was loaded again, without a fragment,
\* and settled on the login screen.
C16_Witness ==
    /\ loggedOut
    /\ loads = 2
    /\ pagePc = "settled"
    /\ ~loadUrl.hash.present
    /\ View = "login"

(***************************************************************************)
(* Clip playback, continued (checked under SpecPlayback).                  *)
(***************************************************************************)
\* a playSnippet call of instance i has not settled yet
InFlight(i) ==
    \E r \in 1..Len(requests) :
        /\ requests[r].inst = i
        /\ requests[r].kind = "play"
        /\ requests[r].status \in {"awaiting", "accepted"}

\* C17: while the hook is mounted and no playSnippet call is in flight, a clip
\* that was started successfully and is still playing has an automatic stop
\* pending.
C17_Original ==
    \A i \in Instances :
        ( /\ isMountedRef[i]
          /\ phase[i] = "mounted"
          /\ playing[i] /= NULL
          /\ requests[playing[i]].status = "ok"
          /\ ~InFlight(i) )
        => PendingOf(i, timers) /= <<>>

\* every call of instance i so far was made while it was mounted
CalledWhileMounted(i) ==
    \A r \in 1..Len(requests) : requests[r].inst = i => requests[r].live

\* C18: once the hook is unmounted, whatever was called while it was mounted
\* (a playSnippet still awaiting its response included), it holds no player,
\* its player is disconnected, and no automatic stop of it is pending.
C18_Original ==
    \A i \in Instances :
        (phase[i] = "unmounted" /\ CalledWhileMounted(i))
        => ( /\ playerRef[i] = NULL
             /\ \A c \in connected : c[1] /= i
             /\ snippetTimeoutRef[i] = NULL
             /\ PendingOf(i, timers) = <<>> )

(***************************************************************************)
(* The page's token after a load (checked under SpecToken).                *)
(***************************************************************************)
\* C20: when the mount effect leaves the page authenticated, from a fragment or
\* from the storage, the token the page holds is one getStoredToken reports as
\* present at that instant: stored, and with remaining validity beyond the
\* buffer.
C20_Original ==
    [][(pagePc = "returned" /\ pagePc' = "settled" /\ pageAccessToken' /= None) =>
        ( /\ IsTokenItem(storage')
          /\ storage'.accessToken = pageAccessToken'[1]
          /\ storage'.expiresAt.v - now' > BufferMs
          /\ getStoredToken(storage').val /= None )]_vars

(***************************************************************************)
(* The SDK loader after the ready signal (checked under SpecLoader).       *)
(***************************************************************************)
\* the step is the mount effect of instance i, run with the client ID set
\* after the SDK has signalled ready
MountsAfterReady(i) ==
    /\ clientIdConfigured
    /\ sdkReady
    /\ phase[i] /= "mounted"
    /\ phase'[i] = "mounted"

\* C21: when a consumer mounts after the ready signal, its continuation runs
\* within the mount: no script is added, the queue is as before, the instance
\* gets a player, created by this effect run and connected, and the cleanup
\* loadSpotifySDK returned does nothing, so that the unmount of such a
\* consumer leaves the queue as it is.
C21_MountAfterReady ==
    /\ [][\A i \in Instances :
            MountsAfterReady(i) =>
                ( /\ scripts' = scripts
                  /\ callbacks' = callbacks
                  /\ runs[i][gen'[i]] = 0
                  /\ runs'[i][gen'[i]] = 1
                  /\ playerRef[i] = NULL
                  /\ playerRef'[i] = gen'[i]
                  /\ <<i, gen'[i]>> \in connected' \ connected
                  /\ cleanupSDK'[i] = "noop" )]_vars
    /\ [][\A i \in Instances :
            (phase[i] = "mounted" /\ phase'[i] = "unmounted" /\ cleanupSDK[i] = "noop")
            => callbacks' = callbacks]_vars

\* C21 witness: after the ready signal one instance mounted and holds the
\* player its continuation created, and another that mounted after the signal
\* has unmounted again.
C21_Witness ==
    /\ sdkReady
    /\ scripts = 1
    /\ \E i, j \in Instances :
          /\ i /= j
          /\ phase[i] = "mounted" /\ cleanupSDK[i] = "noop"
          /\ playerRef[i] = gen[i] /\ runs[i][gen[i]] = 1
          /\ phase[j] = "unmounted" /\ cleanupSDK[j] = "noop"

\* C22: the ready flag, once set, stays set; from the ready signal on the
\* queue is empty, whatever mounts and unmounts follow.
C22_ReadyIsStable ==
    /\ [](sdkReady => (spotifyGlobal /\ callbacks = <<>>))
    /\ [][sdkReady => (sdkReady' /\ callbacks' = <<>>)]_vars

\* C22 witness: two consumers were queued at the signal, and after it an
\* instance has unmounted and mounted again; the queue is empty.
C22_Witness ==
    /\ sdkReady
    /\ callbacks = <<>>
    /\ \E i, j \in Instances :
          /\ i /= j
          /\ runs[i][1] = 1 /\ runs[j][1] = 1
          /\ cleanupSDK[j] = "remove"
          /\ gen[i] = 2 /\ phase[i] = "mounted" /\ cleanupSDK[i] = "noop"

\* the players of instance i that are connected
PlayersOf(i) == {c \in connected : c[1] = i}

\* C23: an instance never has more than one connected player; its player
\* reference is set only while it is mounted, to the player its continuation
\* created; a player is created only for a mounted instance that has none; and
\* invoking the continuation again, of this or of any effect run, while the
\* instance has a player or is unmounted creates nothing.
C23_OnePlayer ==
    /\ [](\A i \in Instances :
            /\ Cardinality(PlayersOf(i)) <= 1
            /\ playerRef[i] /= NULL =>
                  ( /\ phase[i] = "mounted"
                    /\ PlayersOf(i) = {<<i, playerRef[i]>>}
                    /\ runs[i][playerRef[i]] >= 1 )
            /\ playerRef[i] = NULL => PlayersOf(i) = {}
            /\ \A g \in Gens :
                  (playerRef[i] /= NULL \/ ~isMountedRef[i]) =>
                      LET st == initializePlayer(<<i, g>>, isMountedRef, HookSt)
                      IN  st.playerRef = playerRef /\ st.connected = connected)
    /\ [][\A c \in connected' \ connected :
            /\ phase'[c[1]] = "mounted"
            /\ playerRef[c[1]] = NULL
            /\ playerRef'[c[1]] = c[2]]_vars
    /\ [][\A i \in Instances :
            (playerRef[i] /= NULL /\ phase'[i] /= "mounted") => playerRef'[i] = NULL]_vars

\* C23 witness: an instance holds the player of its second effect run, the
\* player of its first run having been disconnected at the unmount.
C23_Witness ==
    \E i \in Instances :
        /\ phase[i] = "mounted"
        /\ runs[i][1] = 1
        /\ playerRef[i] = 2
        /\ PlayersOf(i) = {<<i, 2>>}

(***************************************************************************)
(* Clip playback and readiness (checked under SpecPlayback).               *)
(***************************************************************************)
\* C24: a playSnippet call sends a playback request only while the hook's
\* readiness flag is true; called while the flag is false it throws, sends
\* nothing and leaves the pending timers and the timer reference as they are.
C24_Original ==
    [][\A i \in Instances :
        (Issued(i, "play") /\ ~isReady[i]) =>
            ( /\ requests'[Len(requests')].status = "rejected"
              /\ timers' = timers
              /\ snippetTimeoutRef' = snippetTimeoutRef )]_vars

(***************************************************************************)
(* getStoredToken removing what it rejects (checked under SpecReads, where *)
(* nothing but getStoredToken itself calls clearToken).                    *)
(***************************************************************************)
\* the step is a read of the stored token, through any of the three readers
\* or by the page's mount effect
ReadStep == GetStoredTokenStep \/ GetAccessToken \/ HasValidToken

\* the stored value is one getStoredToken parses and rejects: not JSON,
\* without an access token or an expiry, or expired under the buffer
Rejected(item) == ItemClass(item, now) \in {"malformed", "expired", "expiring", "boundary"}

\* C25: a getStoredToken that finds a stored value it rejects (unparsable,
\* lacking the access token or the expiry, or expired under the buffer) reports
\* absent and removes the entry; from then on, with no clearToken call at all,
\* the storage is empty and every read reports absent, until a token is saved.
C25_RejectedIsRemoved ==
    /\ [][(GetStoredTokenStep /\ Rejected(storage)) =>
            (lastRead'.absent /\ storage' = NoItem /\ clearedSinceSave')]_vars
    /\ [](clearedSinceSave => storage = NoItem)
    /\ [][(ReadStep /\ clearedSinceSave) =>
            (lastRead'.absent /\ lastRead'.token = None /\ storage' = NoItem)]_vars
    /\ [][(clearedSinceSave /\ ~clearedSinceSave') =>
            (lastSaved' /= None /\ storage' = saveToken(lastSaved'[1]))]_vars

\* C25 witness: a page was authenticated from the stored token; later, with no
\* clearToken call, a read removed the entry and a following hasValidToken
\* found the storage empty.
C25_Witness ==
    /\ pageAccessToken /= None
    /\ ~loadUrl.hash.present
    /\ clearedSinceSave
    /\ lastRead.cleared
    /\ lastRead.op = "hasValidToken"
    /\ lastRead.found = "empty"
    /\ lastRead.absent

(***************************************************************************)
(* The hook without a client ID (checked under SpecQuizConfig).            *)
(***************************************************************************)
\* C26: without a Spotify client ID every mount of the hook sets its error
\* and returns no cleanup; no script is ever injected, the queue stays empty,
\* no continuation runs and no player is created, the SDK never signals
\* ready, the hook is never ready, and no session is ever started: handleStart
\* only alerts.
C26_NoClientId ==
    /\ [](~clientIdConfigured =>
            ( /\ scripts = 0
              /\ callbacks = <<>>
              /\ ~sdkReady
              /\ connected = {}
              /\ \A i \in Instances :
                    /\ playerRef[i] = NULL
                    /\ \A g \in Gens : runs[i][g] = 0
                    /\ ~isReady[i]
                    /\ deviceId[i] = NULL
                    /\ phase[i] /= "none" => (hookError[i] /\ cleanupSDK[i] = "none")
              /\ startDisabled
              /\ ~isStarted
              /\ session = "idle"
              /\ startCalls = 0 ))
    /\ [][\A i \in Instances :
            (~clientIdConfigured /\ phase[i] /= "mounted" /\ phase'[i] = "mounted") =>
                ( /\ hookError'[i]
                  /\ scripts' = scripts
                  /\ callbacks' = callbacks
                  /\ connected' = connected
                  /\ playerRef' = playerRef )]_vars

\* C26 witness: without a client ID the hook has mounted twice, holds its
\* error, and a Start was answered with the alert.
C26_Witness ==
    /\ ~clientIdConfigured
    /\ phase[Hook] = "mounted"
    /\ gen[Hook] = 2
    /\ hookError[Hook]
    /\ alerted
    /\ scripts = 0

(***************************************************************************)
(* The stop_playback tool (checked under SpecQuizStop).                    *)
(***************************************************************************)
\* C27: no call of the stop_playback tool ends with its promise rejected:
\* every call returns "Playback stopped", with or without a player, and also
\* when the player's pause() fails.
C27_Original == lastStop /= "thrown"

(***************************************************************************)
(* The ready signal with throwing continuations (checked under             *)
(* SpecLoaderThrowing).                                                    *)
(***************************************************************************)
\* C28: at the ready signal every queued continuation is invoked, once,
\* whether or not continuations before it in the queue threw; the ready flag
\* is set and the queue is emptied; and a consumer whose continuation ran
\* without creating a player (it threw) does not keep another from its player.
C28_ThrowIsContained ==
    /\ [][(~sdkReady /\ sdkReady') =>
            ( /\ spotifyGlobal'
              /\ callbacks' = <<>>
              /\ \A c \in Queued : runs[c[1]][c[2]] = 0 /\ runs'[c[1]][c[2]] = 1
              /\ \A i \in Instances :
                    playerRef'[i] /= NULL => <<i, playerRef'[i]>> \in Queued )]_vars
    /\ [](sdkReady => (spotifyGlobal /\ callbacks = <<>>))
    /\ [](\A i \in Instances, g \in Gens : runs[i][g] <= 1)

\* C28 witness: both instances were queued at the signal; the continuation of
\* one threw (it ran and left no player) and the other has its player.
C28_Witness ==
    /\ sdkReady
    /\ callbacks = <<>>
    /\ \E i, j \in Instances :
          /\ i /= j
          /\ Consumer(i, gen[i]) /\ cleanupSDK[i] = "remove"
          /\ runs[i][gen[i]] = 1 /\ playerRef[i] = NULL
          /\ Consumer(j, gen[j]) /\ cleanupSDK[j] = "remove"
          /\ runs[j][gen[j]] = 1 /\ playerRef[j] = gen[j]

====
